---- MODULE Spec2Model ----
(***************************************************************************)
(* Model of price_watcher.py: the price-text normalizer parse_price and    *)
(* the check-record-alert pass run_once.                                   *)
(*                                                                         *)
(* Text is a sequence of one-character strings.  A float is modelled as an *)
(* exact decimal [n |-> digits as a natural, k |-> number of fraction      *)
(* digits] with trailing fraction zeros removed; for the short decimal     *)
(* strings considered here (fewer than 15 significant digits) two strings  *)
(* convert to the same IEEE double exactly when they have the same         *)
(* normalized decimal.                                                     *)
(***************************************************************************)
EXTENDS Integers, Sequences, FiniteSets, TLC

VARIABLES
    \* ---- parse_price (one call, followed statement by statement)
    text,        \* the argument of parse_price
    s,           \* its local s
    result,      \* its return value
    ppc,         \* position inside parse_price
    \* ---- run_once
    cfg,         \* products.yaml as found on disk
    db,          \* rows of table price_history
    pc,          \* position inside run_once
    i,           \* index of the product the for loop is at
    price,       \* local price
    status,      \* local status
    any_alerts,  \* local any_alerts
    requests,    \* URLs requested with requests.get so far
    out,         \* lines printed so far
    error,       \* exception that ended the run, if any
    exit_code    \* process exit code (-1 while running)

parseVars == <<text, s, result, ppc>>
runVars == <<cfg, db, pc, i, price, status, any_alerts, requests, out, error, exit_code>>
vars == <<text, s, result, ppc, cfg, db, pc, i, price, status, any_alerts,
          requests, out, error, exit_code>>

----------------------------------------------------------------------------
\* Bounds

\* Longest generated input text of parse_price.
MaxLen == 4

\* Longest generated product list.
MaxProducts == 2

----------------------------------------------------------------------------
\* Characters, strings and floats

\* Python's None (for a float, a text or a target).
None == [n |-> -1, k |-> 0]

\* None as the text argument.
NoText == <<"None">>

DigitVal ==
    [c \in {"0", "1", "2", "3", "4", "5", "6", "7", "8", "9"} |->
        CASE c = "0" -> 0 [] c = "1" -> 1 [] c = "2" -> 2 [] c = "3" -> 3
          [] c = "4" -> 4 [] c = "5" -> 5 [] c = "6" -> 6 [] c = "7" -> 7
          [] c = "8" -> 8 [] c = "9" -> 9]

\* \d of the regular expression.
IsDigit(c) == c \in DOMAIN DigitVal

\* \s of the regular expression and the characters str.strip() removes
\* (the ASCII ones; the non-breaking space and the other Unicode spaces are
\* treated by the code like the tab).
Whitespace == {" ", "\t", "\n", "\r", "\f"}

IsSpace(c) == c \in Whitespace

SetMin(S) == CHOOSE x \in S : \A y \in S : x <= y

SetMax(S) == CHOOSE x \in S : \A y \in S : x >= y

\* str.strip(): leading and trailing whitespace removed.
Strip(str) ==
    LET keep == {j \in 1..Len(str) : ~IsSpace(str[j])}
    IN  IF keep = {} THEN <<>> ELSE SubSeq(str, SetMin(keep), SetMax(keep))

\* c in str
Contains(str, c) == \E j \in 1..Len(str) : str[j] = c

\* str.count(c)
Count(str, c) == Cardinality({j \in 1..Len(str) : str[j] = c})

\* str.rfind(c): 0-based index of the last occurrence, -1 when there is none.
RFind(str, c) ==
    LET at == {j \in 1..Len(str) : str[j] = c}
    IN  IF at = {} THEN -1 ELSE SetMax(at) - 1

\* str.replace(c, ""): every occurrence of c deleted.
Delete(str, c) == SelectSeq(str, LAMBDA x : x # c)

\* str.replace(c, d): every occurrence of c replaced by d.
Replace(str, c, d) == [j \in 1..Len(str) |-> IF str[j] = c THEN d ELSE str[j]]

\* str.split(c): the pieces between the occurrences of c.
RECURSIVE Split(_, _)
Split(str, c) ==
    IF ~Contains(str, c)
    THEN <<str>>
    ELSE LET at == SetMin({j \in 1..Len(str) : str[j] = c})
         IN  <<SubSeq(str, 1, at - 1)>> \o Split(SubSeq(str, at + 1, Len(str)), c)

\* "".join(parts)
RECURSIVE Join(_)
Join(parts) == IF parts = <<>> THEN <<>> ELSE Head(parts) \o Join(Tail(parts))

\* parts[:-1]
AllButLast(parts) == SubSeq(parts, 1, Len(parts) - 1)

\* Variant of KeepLastAsDecimal: every occurrence of c is deleted, the last too.
KeepNoneAsDecimal(str, c) == Delete(str, c)

\* "".join(parts[:-1]) + "." + parts[-1] with parts = str.split(c)
KeepLastAsDecimal(str, c) ==
    LET parts == Split(str, c)
    IN  Join(AllButLast(parts)) \o <<".">> \o parts[Len(parts)]

RECURSIVE DigitsToNat(_)
DigitsToNat(ds) ==
    IF ds = <<>> THEN 0
    ELSE 10 * DigitsToNat(AllButLast(ds)) + DigitVal[ds[Len(ds)]]

RECURSIVE Normalize(_, _)
Normalize(n, k) ==
    IF k > 0 /\ n % 10 = 0 THEN Normalize(n \div 10, k - 1) ELSE [n |-> n, k |-> k]

\* float(str): surrounding whitespace is ignored, then the text must be
\* digits with at most one '.' and at least one digit; anything else is
\* ValueError (None).  Signs, exponents, underscores and the words inf and
\* nan, which float also reads, are made of characters the cleaning removes
\* and never reach it.
Float(str) ==
    LET t == Strip(str)
    IN  IF /\ \A j \in 1..Len(t) : IsDigit(t[j]) \/ t[j] = "."
           /\ Count(t, ".") <= 1
           /\ \E j \in 1..Len(t) : IsDigit(t[j])
        THEN Normalize(DigitsToNat(Delete(t, ".")),
                       IF Contains(t, ".") THEN Len(t) - 1 - RFind(t, ".") ELSE 0)
        ELSE None

RECURSIVE Pow10(_)
Pow10(k) == IF k = 0 THEN 1 ELSE 10 * Pow10(k - 1)

\* a <= b on floats
Le(a, b) == a.n * Pow10(b.k) <= b.n * Pow10(a.k)

----------------------------------------------------------------------------
\* parse_price

\* s = text.strip(); s = re.sub(r"[^\d,.\s]", "", s).strip(); s = s.replace(" ", "")
CleanText(t) ==
    Delete(Strip(SelectSeq(Strip(t),
                           LAMBDA c : IsDigit(c) \/ c = "," \/ c = "." \/ IsSpace(c))),
           " ")

\* str.find(c): 0-based index of the first occurrence, -1 when there is none.
Find(str, c) ==
    LET at == {j \in 1..Len(str) : str[j] = c}
    IN  IF at = {} THEN -1 ELSE SetMin(at) - 1

\* Variant of SeparatorStep: the decimal separator is decided by the first
\* occurrences (find) instead of the last ones (rfind).
SeparatorStepByFirst(str) ==
    IF Contains(str, ",") /\ Contains(str, ".")
    THEN IF Find(str, ",") > Find(str, ".")
         THEN Replace(Delete(str, "."), ",", ".")
         ELSE Delete(str, ",")
    ELSE LET s1 == IF Contains(str, ",") /\ ~Contains(str, ".")
                   THEN IF Count(str, ",") > 1
                        THEN KeepLastAsDecimal(str, ",")
                        ELSE Replace(str, ",", ".")
                   ELSE str
         IN  IF Contains(s1, ".") /\ Count(s1, ".") > 1
             THEN KeepLastAsDecimal(s1, ".")
             ELSE s1

\* the if/else over the separators that follows the cleaning
SeparatorStep(str) ==
    IF Contains(str, ",") /\ Contains(str, ".")
    THEN IF RFind(str, ",") > RFind(str, ".")
         THEN Replace(Delete(str, "."), ",", ".")
         ELSE Delete(str, ",")
    ELSE LET s1 == IF Contains(str, ",") /\ ~Contains(str, ".")
                   THEN IF Count(str, ",") > 1
                        THEN KeepLastAsDecimal(str, ",")
                        ELSE Replace(str, ",", ".")
                   ELSE str
         IN  IF Contains(s1, ".") /\ Count(s1, ".") > 1
             THEN KeepLastAsDecimal(s1, ".")
             ELSE s1

parse_price(t) == IF t = NoText THEN None ELSE Float(SeparatorStep(CleanText(t)))

\* One call of parse_price, statement by statement.

\* if text is None: return None
ParseNone ==
    /\ ppc = "called"
    /\ text = NoText
    /\ result' = None
    /\ ppc' = "returned"
    /\ UNCHANGED <<text, s>>

\* s = text.strip(); s = re.sub(...).strip(); s = s.replace(" ", "")
ParseClean ==
    /\ ppc = "called"
    /\ text # NoText
    /\ s' = CleanText(text)
    /\ ppc' = "cleaned"
    /\ UNCHANGED <<text, result>>

\* the separator if/else
ParseSeparators ==
    /\ ppc = "cleaned"
    /\ s' = SeparatorStep(s)
    /\ ppc' = "separated"
    /\ UNCHANGED <<text, result>>

\* try: return float(s) except ValueError: return None
ParseConvert ==
    /\ ppc = "separated"
    /\ result' = Float(s)
    /\ ppc' = "returned"
    /\ UNCHANGED <<text, s>>

----------------------------------------------------------------------------
\* Texts written out character by character

TxtUsd == <<"$", "1", ",", "2", "3", "4", ".", "5", "6">>

TxtEuro == <<"1", ".", "2", "3", "4", ",", "5", "6">>

TxtComma == <<"1", "2", "3", ",", "4", "5">>

TxtDots == <<"1", ".", "2", "3", "4", ".", "5", "6", "7">>

TxtPlain == <<"1", "2", "3", "4", ".", "5", "6">>

TxtBrl == <<"U", "S", "$", " ", "2", ".", "5", "0", "0", ",", "0", "0">>

TxtExact == <<"2", "0", "0", "0">>

TxtCheap == <<"$", "1", ",", "9", "9", "9", ".", "0", "0">>

TxtNA == <<"N", "/", "A">>

\* Characters the generated inputs are built from.
Alphabet == {"1", "5", ",", ".", " ", "\t", "$"}

Generated == UNION {[1..n -> Alphabet] : n \in 0..MaxLen}

Samples == {TxtUsd, TxtEuro, TxtComma, TxtDots, TxtPlain, TxtBrl, TxtExact, TxtCheap, TxtNA}

Inputs == Generated \cup Samples \cup {NoText}

----------------------------------------------------------------------------
\* run_once and what it calls

T2000 == [n |-> 2000, k |-> 0]

T3000 == [n |-> 3000, k |-> 0]

\* Entries of products.yaml; name "" stands for a missing name.
ProductSet ==
    { [name |-> "gpu", url |-> "https://a", selector |-> ".price", target_price |-> T2000],
      [name |-> "",    url |-> "https://b", selector |-> ".price", target_price |-> T3000],
      [name |-> "ssd", url |-> "https://c", selector |-> "#p",     target_price |-> None],
      [name |-> "",    url |-> "https://d", selector |-> "div[",   target_price |-> T2000] }

ProductLists == UNION {[1..n -> ProductSet] : n \in 0..MaxProducts}

\* products.yaml: missing, without a products key, or with a products list.
Configs ==
    {[exists |-> FALSE, hasProducts |-> FALSE, products |-> <<>>],
     [exists |-> TRUE, hasProducts |-> FALSE, products |-> <<>>]}
    \cup {[exists |-> TRUE, hasProducts |-> TRUE, products |-> ps] : ps \in ProductLists}

\* Selectors soupsieve cannot compile: select_one raises SelectorSyntaxError.
InvalidSelectors == {"div["}

\* Messages of the requests.RequestException raised by get / raise_for_status.
Causes == {"timed out", "404 Client Error"}

PageTexts == {TxtBrl, TxtExact, TxtCheap, TxtNA}

\* What the site answers to one GET: an exception, or a page in which the
\* selector matches nothing or matches an element with the given text.
Responses ==
    {[kind |-> "fail", cause |-> c, matched |-> FALSE, text |-> <<>>] : c \in Causes}
    \cup {[kind |-> "page", cause |-> "", matched |-> FALSE, text |-> <<>>]}
    \cup {[kind |-> "page", cause |-> "", matched |-> TRUE, text |-> t] : t \in PageTexts}

\* Rows left in price_history by earlier runs.
PriorHistory ==
    << [id |-> 1, name |-> "gpu", url |-> "https://a", price |-> [n |-> 2100, k |-> 0],
        target |-> T2000, selector |-> ".price", status |-> "ok"] >>

\* cfg.get("products", [])
Products == IF cfg.exists /\ cfg.hasProducts THEN cfg.products ELSE <<>>

\* el.get_text(strip=True) of an element holding one text node
get_text(t) == Strip(t)

\* soup.select_one(selector) raises instead of returning
SelectRaises(selector, r) == r.kind = "page" /\ selector \in InvalidSelectors

\* Variant of fetch_price: the "if price is None" test is missing.
fetch_price_unchecked(selector, r) ==
    IF r.kind = "fail"
    THEN <<None, "fetch_error: " \o r.cause>>
    ELSE IF ~r.matched
         THEN <<None, "selector_not_found">>
         ELSE <<parse_price(get_text(r.text)), "ok">>

\* Variant of fetch_price: the status of a failed request is the bare
\* exception text, f"{e}".
fetch_price_bare_cause(selector, r) ==
    IF r.kind = "fail"
    THEN <<None, r.cause>>
    ELSE IF ~r.matched
         THEN <<None, "selector_not_found">>
         ELSE LET p == parse_price(get_text(r.text))
              IN  IF p = None THEN <<None, "parse_failed">> ELSE <<p, "ok">>

\* fetch_price(url, selector) -> <<price, status>>, given the site's answer
fetch_price(selector, r) ==
    IF r.kind = "fail"
    THEN <<None, "fetch_error: " \o r.cause>>
    ELSE IF ~r.matched
         THEN <<None, "selector_not_found">>
         ELSE LET p == parse_price(get_text(r.text))
              IN  IF p = None THEN <<None, "parse_failed">> ELSE <<p, "ok">>

\* name = p.get("name") or p.get("url")
NameOf(p) == IF p.name # "" THEN p.name ELSE p.url

\* the row INSERTed by record(name, url, price, target, selector, status);
\* id is the AUTOINCREMENT key, the timestamp column is left out.
Row(p, pr, st) ==
    [id |-> Len(db) + 1, name |-> NameOf(p), url |-> p.url, price |-> pr,
     target |-> p.target_price, selector |-> p.selector, status |-> st]

\* Variant of AlertCondition: price < float(target).
AlertConditionStrict(target, pr) ==
    target # None /\ pr # None /\ Le(pr, target) /\ ~Le(target, pr)

\* target is not None and price is not None and price <= float(target)
AlertCondition(target, pr) == target # None /\ pr # None /\ Le(pr, target)

\* if not CONFIG_PATH.exists(): ... sys.exit(1)
ConfigMissing ==
    /\ pc = "start"
    /\ ~cfg.exists
    /\ out' = Append(out, [stream |-> "stderr", kind |-> "config_not_found"])
    /\ exit_code' = 1
    /\ error' = "SystemExit"
    /\ pc' = "config_error"
    /\ UNCHANGED <<cfg, db, i, price, status, any_alerts, requests>>

\* Variant of NoProducts: the "if not products" test is missing, the loop
\* runs over the empty list.
NoProductsUnchecked ==
    /\ pc = "start"
    /\ cfg.exists
    /\ Products = <<>>
    /\ any_alerts' = FALSE
    /\ pc' = "finish"
    /\ UNCHANGED <<cfg, db, i, price, status, requests, out, error, exit_code>>

\* if not products: ... sys.exit(1)
NoProducts ==
    /\ pc = "start"
    /\ cfg.exists
    /\ Products = <<>>
    /\ out' = Append(out, [stream |-> "stderr", kind |-> "no_products"])
    /\ exit_code' = 1
    /\ error' = "SystemExit"
    /\ pc' = "config_error"
    /\ UNCHANGED <<cfg, db, i, price, status, any_alerts, requests>>

\* any_alerts = False; for p in products:
BeginLoop ==
    /\ pc = "start"
    /\ cfg.exists
    /\ Products # <<>>
    /\ any_alerts' = FALSE
    /\ i' = 1
    /\ pc' = "fetch"
    /\ UNCHANGED <<cfg, db, price, status, requests, out, error, exit_code>>

\* price, status = fetch_price(url, selector)
FetchPrice ==
    /\ pc = "fetch"
    /\ \E r \in Responses :
          /\ ~SelectRaises(Products[i].selector, r)
          /\ price' = fetch_price(Products[i].selector, r)[1]
          /\ status' = fetch_price(Products[i].selector, r)[2]
    /\ requests' = Append(requests, Products[i].url)
    /\ pc' = "record"
    /\ UNCHANGED <<cfg, db, i, any_alerts, out, error, exit_code>>

\* fetch_price: soup.select_one(selector) raises; nothing catches it
FetchPriceRaises ==
    /\ pc = "fetch"
    /\ \E r \in Responses : SelectRaises(Products[i].selector, r)
    /\ requests' = Append(requests, Products[i].url)
    /\ error' = "SelectorSyntaxError"
    /\ exit_code' = 1
    /\ pc' = "aborted"
    /\ UNCHANGED <<cfg, db, i, price, status, any_alerts, out>>

\* Variant of Record: only successful checks are written.
RecordOnlyOk ==
    /\ pc = "record"
    /\ db' = IF status = "ok" THEN Append(db, Row(Products[i], price, status)) ELSE db
    /\ pc' = "evaluate"
    /\ UNCHANGED <<cfg, i, price, status, any_alerts, requests, out, error, exit_code>>

\* record(name, url, price, target, selector, status): INSERT and commit
Record ==
    /\ pc = "record"
    /\ db' = Append(db, Row(Products[i], price, status))
    /\ pc' = "evaluate"
    /\ UNCHANGED <<cfg, i, price, status, any_alerts, requests, out, error, exit_code>>

\* Variant of RecordFails: the exception is caught and the loop goes on.
RecordFailsSwallowed ==
    /\ pc = "record"
    /\ pc' = "evaluate"
    /\ UNCHANGED <<cfg, db, i, price, status, any_alerts, requests, out, error, exit_code>>

\* record: connect, execute or commit raises sqlite3.Error; nothing catches it
RecordFails ==
    /\ pc = "record"
    /\ error' = "sqlite3.Error"
    /\ exit_code' = 1
    /\ pc' = "aborted"
    /\ UNCHANGED <<cfg, db, i, price, status, any_alerts, requests, out>>

\* if status != "ok": print, continue; else print and raise the alert
Evaluate ==
    /\ pc = "evaluate"
    /\ LET p == Products[i]
           line == [stream |-> "stdout", name |-> NameOf(p), url |-> p.url]
       IN  IF status # "ok"
           THEN /\ out' = Append(out, line @@ [kind |-> "error", status |-> status])
                /\ UNCHANGED any_alerts
           ELSE IF AlertCondition(p.target_price, price)
                THEN /\ any_alerts' = TRUE
                     /\ out' = out \o << line @@ [kind |-> "info", price |-> price],
                                         line @@ [kind |-> "alert", price |-> price] >>
                ELSE /\ out' = Append(out, line @@ [kind |-> "info", price |-> price])
                     /\ UNCHANGED any_alerts
    /\ i' = i + 1
    /\ pc' = IF i = Len(Products) THEN "finish" ELSE "fetch"
    /\ UNCHANGED <<cfg, db, price, status, requests, error, exit_code>>

\* if not any_alerts: print("No alerts this run.")
Finish ==
    /\ pc = "finish"
    /\ out' = IF any_alerts THEN out
              ELSE Append(out, [stream |-> "stdout", kind |-> "no_alerts"])
    /\ exit_code' = 0
    /\ pc' = "done"
    /\ UNCHANGED <<cfg, db, i, price, status, any_alerts, requests, error>>

----------------------------------------------------------------------------
\* Specifications

ParseIdle == text = NoText /\ s = <<>> /\ result = None /\ ppc = "off"

RunIdle ==
    /\ cfg = [exists |-> FALSE, hasProducts |-> FALSE, products |-> <<>>]
    /\ db = PriorHistory
    /\ pc = "off"
    /\ i = 0
    /\ price = None
    /\ status = ""
    /\ any_alerts = FALSE
    /\ requests = <<>>
    /\ out = <<>>
    /\ error = ""
    /\ exit_code = -1

\* The process starts: run_once is entered with some products.yaml on disk.
Init ==
    /\ ParseIdle
    /\ cfg \in Configs
    /\ db = PriorHistory
    /\ pc = "start"
    /\ i = 0
    /\ price = None
    /\ status = ""
    /\ any_alerts = FALSE
    /\ requests = <<>>
    /\ out = <<>>
    /\ error = ""
    /\ exit_code = -1

Next ==
    \/ (ConfigMissing /\ UNCHANGED parseVars)
    \/ (NoProducts /\ UNCHANGED parseVars)
    \/ (BeginLoop /\ UNCHANGED parseVars)
    \/ (FetchPrice /\ UNCHANGED parseVars)
    \/ (FetchPriceRaises /\ UNCHANGED parseVars)
    \/ (Record /\ UNCHANGED parseVars)
    \/ (RecordFails /\ UNCHANGED parseVars)
    \/ (Evaluate /\ UNCHANGED parseVars)
    \/ (Finish /\ UNCHANGED parseVars)

Spec == Init /\ [][Next]_vars

\* parse_price is called with some text.
ParseInit ==
    /\ RunIdle
    /\ text \in Inputs
    /\ s = <<>>
    /\ result = None
    /\ ppc = "called"

ParseNext ==
    \/ (ParseNone /\ UNCHANGED runVars)
    \/ (ParseClean /\ UNCHANGED runVars)
    \/ (ParseSeparators /\ UNCHANGED runVars)
    \/ (ParseConvert /\ UNCHANGED runVars)

SpecParse == ParseInit /\ [][ParseNext]_vars

----------------------------------------------------------------------------
\* Properties of run_once

\* Rows appended to price_history since the run began.
NewRows == SubSeq(db, Len(PriorHistory) + 1, Len(db))

\* Row r is the observation of product p.
RowOf(r, p) ==
    /\ r.name = NameOf(p)
    /\ r.url = p.url
    /\ r.selector = p.selector
    /\ r.target = p.target_price

\* Row r is one that calls for an alert.
RowAlerts(r) ==
    /\ r.status = "ok"
    /\ r.target # None
    /\ r.price.n * Pow10(r.target.k) <= r.target.n * Pow10(r.price.k)

\* Lines printed for products (one error line or one info line each).
ProductLines == SelectSeq(out, LAMBDA l : l.kind \in {"error", "info"})

\* C1: when run_once completes over a non-empty product list, the rows added
\* to price_history are exactly one per product, in configured order, whatever
\* fetch_price returned; while the loop runs, one row per product handled.
C1_OneRowPerProduct ==
    /\ SubSeq(db, 1, Len(PriorHistory)) = PriorHistory
    /\ pc \in {"fetch", "record", "finish", "done"} => Len(NewRows) = i - 1
    /\ pc = "evaluate" => Len(NewRows) = i
    /\ pc = "done" =>
          /\ Len(NewRows) = Len(Products)
          /\ \A k \in 1..Len(Products) : RowOf(NewRows[k], Products[k])

C1_Witness ==
    /\ pc = "done"
    /\ Len(Products) = 2
    /\ Len(NewRows) = 2
    /\ NewRows[1].status = "selector_not_found"
    /\ NewRows[2].status = "ok"

\* C2: every recorded observation has a price if and only if its status is
\* "ok", and so has every pair fetch_price returned.
C2_PriceIffOk ==
    /\ \A k \in 1..Len(NewRows) : (NewRows[k].price # None) <=> (NewRows[k].status = "ok")
    /\ pc \in {"record", "evaluate"} => ((price # None) <=> (status = "ok"))

C2_Witness ==
    /\ pc = "done"
    /\ \E k \in 1..Len(NewRows) : NewRows[k].status = "ok" /\ NewRows[k].price # None
    /\ \E k \in 1..Len(NewRows) : NewRows[k].status = "parse_failed" /\ NewRows[k].price = None

\* C3 as stated: the status of every recorded observation is exactly one of
\* ok, fetch_error, selector_not_found, parse_failed.
C3_StatusEnumerated ==
    \A k \in 1..Len(NewRows) :
        NewRows[k].status \in {"ok", "fetch_error", "selector_not_found", "parse_failed"}

\* C3 amended: the status of every recorded observation is ok,
\* selector_not_found, parse_failed, or "fetch_error: " followed by the text
\* of the request exception.
C3_StatusWithCause ==
    \A k \in 1..Len(NewRows) :
        NewRows[k].status \in
            {"ok", "selector_not_found", "parse_failed"}
            \cup {"fetch_error: " \o c : c \in Causes}

C3_Witness ==
    /\ pc = "done"
    /\ \E k \in 1..Len(NewRows) : NewRows[k].status = "fetch_error: timed out"

\* C4: at the end of a completed run any_alerts is true if and only if some
\* product had status ok, a target and price <= target (the same holds of the
\* products handled so far while the loop runs), and once true any_alerts
\* never becomes false again.
C4_AlertFlag ==
    /\ [](pc \in {"fetch", "record", "evaluate", "finish", "done", "aborted"} =>
            (any_alerts <=> \E k \in 1..(i - 1) : RowAlerts(NewRows[k])))
    /\ [][any_alerts => any_alerts']_vars

C4_Witness ==
    /\ pc = "done"
    /\ any_alerts
    /\ Len(NewRows) = 2
    /\ RowAlerts(NewRows[1])
    /\ NewRows[1].price = NewRows[1].target
    /\ ~RowAlerts(NewRows[2])

\* C5 as stated: a fetch or extraction failure of one product (the selector
\* failing to evaluate included) never ends the run: unless a write to the
\* store failed, a run that has ended has fetched and recorded every product
\* and ended normally.
C5_ExtractFailureNeverAborts ==
    (pc \in {"done", "aborted"} /\ error # "sqlite3.Error") =>
        /\ pc = "done"
        /\ exit_code = 0
        /\ Len(requests) = Len(Products)
        /\ Len(NewRows) = Len(Products)

\* C6: with the configuration missing, without a products list or with an
\* empty one, run_once ends with exit code 1 before any request and any row.
C6_ConfigErrorHalts ==
    /\ (~cfg.exists \/ Products = <<>>) =>
          /\ pc \in {"off", "start", "config_error"}
          /\ db = PriorHistory
          /\ requests = <<>>
    /\ pc = "config_error" =>
          /\ exit_code = 1
          /\ db = PriorHistory
          /\ requests = <<>>

C6_Witness ==
    /\ pc = "config_error"
    /\ cfg.exists
    /\ cfg.hasProducts
    /\ cfg.products = <<>>
    /\ exit_code = 1

\* C10: when the write in record fails the run ends there: the step that
\* fails to append ends the run without touching the alert flag, the output
\* or the requests; no line is printed for the product, no later product is
\* requested, and the rows of the earlier products are all still there.
C10_WriteFailureEndsRun ==
    /\ []((pc = "aborted" /\ error = "sqlite3.Error") =>
            /\ exit_code = 1
            /\ Len(requests) = i
            /\ Len(ProductLines) = i - 1
            /\ Len(NewRows) = i - 1
            /\ \A k \in 1..(i - 1) : RowOf(NewRows[k], Products[k])
            /\ SubSeq(db, 1, Len(PriorHistory)) = PriorHistory
            /\ (any_alerts <=> \E k \in 1..(i - 1) : RowAlerts(NewRows[k])))
    /\ [][(pc = "record" /\ db' = db) =>
            /\ pc' \in {"record", "aborted"}
            /\ UNCHANGED <<any_alerts, out, requests, i>>]_vars
    /\ [][pc = "aborted" => UNCHANGED vars]_vars

C10_Witness ==
    /\ pc = "aborted"
    /\ error = "sqlite3.Error"
    /\ i = 2
    /\ Len(NewRows) = 1
    /\ Len(Products) = 2

----------------------------------------------------------------------------
\* Properties of parse_price

\* The rightmost separator of str is c.
LastSeparatorIs(str, c) ==
    \E j \in 1..Len(str) :
        /\ str[j] = c
        /\ \A m \in (j + 1)..Len(str) : str[m] \notin {",", "."}

\* C7 as stated: "1.234.567" yields 1234567, the value of "1234567".
C7_DotsAllThousands ==
    (ppc = "returned" /\ text = TxtDots) =>
        /\ result = [n |-> 1234567, k |-> 0]
        /\ result = parse_price(<<"1", "2", "3", "4", "5", "6", "7">>)

\* C7 amended: "1.234.567" yields 1234.567, the value of "1234.567": the last
\* '.' is kept as the decimal point.
C7_LastDotIsDecimal ==
    (ppc = "returned" /\ text = TxtDots) =>
        /\ result = [n |-> 1234567, k |-> 3]
        /\ result = parse_price(<<"1", "2", "3", "4", ".", "5", "6", "7">>)

C7_Witness == ppc = "returned" /\ text = TxtDots /\ result # None

\* C8: when the cleaned text holds both ',' and '.', the kind of the
\* rightmost separator is the decimal point, every separator of the other
\* kind is deleted and the rest is converted with '.' for the decimal
\* separator; "$1,234.56" and "1.234,56" yield 1234.56; a decimal separator
\* occurring more than once yields None.
C8_BothSeparators ==
    (ppc = "returned" /\ text # NoText) =>
        /\ LET c == CleanText(text)
               dec == IF LastSeparatorIs(c, ",") THEN "," ELSE "."
               oth == IF dec = "," THEN "." ELSE ","
               kept == SelectSeq(c, LAMBDA x : x # oth)
               written == [j \in 1..Len(kept) |-> IF kept[j] = dec THEN "." ELSE kept[j]]
           IN  (Contains(c, ",") /\ Contains(c, ".")) =>
                   /\ result = Float(written)
                   /\ Count(c, dec) > 1 => result = None
        /\ text \in {TxtUsd, TxtEuro} => result = [n |-> 123456, k |-> 2]

C8_Witness ==
    /\ ppc = "returned"
    /\ text = TxtEuro
    /\ result = [n |-> 123456, k |-> 2]

\* C9 as stated: cleaning leaves only digits, commas and periods, and text
\* with whitespace between its digit groups yields the value of the same text
\* with the whitespace deleted.
C9_CleaningRemovesWhitespace ==
    /\ ppc = "cleaned" => \A j \in 1..Len(s) : IsDigit(s[j]) \/ s[j] \in {",", "."}
    /\ (ppc = "returned" /\ text # NoText) =>
           result = parse_price(SelectSeq(text, LAMBDA c : ~IsSpace(c)))

====
